---- MODULE Spec2Model ----
(***************************************************************************)
(* Model of src/main.py: the Markdown -> DOCX conversion (markdown_to_doc   *)
(* and its helpers).  Text is modelled as sequences of one-character        *)
(* strings so that the regular expressions and the strip/split/join calls   *)
(* of the source are computed, not assumed.  The document is the sequence   *)
(* of python-docx calls that add body content, in call order.               *)
(***************************************************************************)
EXTENDS Integers, Sequences, FiniteSets, TLC

(***************************************************************************)
(* Bounds of the model.                                                     *)
(***************************************************************************)
\* Largest number of input lines of one conversion.
MaxLines == 3

(***************************************************************************)
(* Characters and the str methods the source uses.                          *)
(***************************************************************************)
\* str.strip() / regex \s: the whitespace characters of the model's alphabet.
IsSpace(c) == c \in {" ", "\t"}

\* regex \d
IsDigit(c) == c \in {"0", "1", "2", "3", "4", "5", "6", "7", "8", "9"}

\* Number of leading characters of s that belong to cs.
LeadCount(s, cs) ==
    IF \A k \in 1..Len(s) : s[k] \in cs
    THEN Len(s)
    ELSE (CHOOSE k \in 1..Len(s) : s[k] \notin cs /\ \A j \in 1..(k-1) : s[j] \in cs) - 1

\* Number of trailing characters of s that belong to cs.
TrailCount(s, cs) ==
    IF \A k \in 1..Len(s) : s[k] \in cs
    THEN Len(s)
    ELSE Len(s) - (CHOOSE k \in 1..Len(s) :
                      s[k] \notin cs /\ \A j \in (k+1)..Len(s) : s[j] \in cs)

\* s with the first n characters dropped.
Drop(s, n) == SubSeq(s, n + 1, Len(s))

\* str.strip(chars) for a set of characters.
StripChars(s, cs) ==
    IF \A k \in 1..Len(s) : s[k] \in cs
    THEN << >>
    ELSE SubSeq(s, LeadCount(s, cs) + 1, Len(s) - TrailCount(s, cs))

\* str.strip()
Strip(s) == StripChars(s, {" ", "\t"})

\* First position >= from where s holds character c, or 0 when there is none.
Find(s, c, from) ==
    IF \E k \in from..Len(s) : s[k] = c
    THEN CHOOSE k \in from..Len(s) : s[k] = c /\ \A j \in from..(k-1) : s[j] # c
    ELSE 0

\* str.split(c): the pieces of s between the occurrences of c (never empty).
RECURSIVE Split(_, _)
Split(s, c) ==
    LET p == Find(s, c, 1)
    IN  IF p = 0 THEN << s >>
        ELSE << SubSeq(s, 1, p - 1) >> \o Split(Drop(s, p), c)

\* " ".join(parts)
RECURSIVE JoinSpace(_)
JoinSpace(parts) ==
    IF parts = << >> THEN << >>
    ELSE IF Len(parts) = 1 THEN parts[1]
    ELSE parts[1] \o << " " >> \o JoinSpace(Tail(parts))

\* [f(x) for x in seq] with f = strip
StripAll(parts) == [k \in 1..Len(parts) |-> Strip(parts[k])]

\* A local variable: F applied to the value x, which is written once.
With(x, F(_)) == F(x)

(***************************************************************************)
(* The regular expressions of lines 20-25, each as its match: ok says       *)
(* whether the line matches, g1/g2 are the groups the source reads.         *)
(***************************************************************************)
NoMatch == [ok |-> FALSE, g1 |-> << >>, g2 |-> << >>]

\* HEADING_RE = ^(#{1,6})\s+(.*)$
HEADING_RE(line) ==
    LET k  == LeadCount(line, {"#"})
        r  == Drop(line, k)
        ws == LeadCount(r, {" ", "\t"})
    IN  IF k >= 1 /\ k <= 6 /\ ws >= 1
        THEN [ok |-> TRUE, g1 |-> SubSeq(line, 1, k), g2 |-> Drop(r, ws)]
        ELSE NoMatch

\* UL_RE = ^\s*[-*+]\s+(.*)$
UL_RE(line) ==
    LET r  == Drop(line, LeadCount(line, {" ", "\t"}))
        r2 == Drop(r, 1)
        ws == LeadCount(r2, {" ", "\t"})
    IN  IF r # << >> /\ r[1] \in {"-", "*", "+"} /\ ws >= 1
        THEN [ok |-> TRUE, g1 |-> Drop(r2, ws), g2 |-> << >>]
        ELSE NoMatch

\* OL_RE = ^\s*\d+\.\s+(.*)$
OL_RE(line) ==
    LET r  == Drop(line, LeadCount(line, {" ", "\t"}))
        nd == LeadCount(r, {"0", "1", "2", "3", "4", "5", "6", "7", "8", "9"})
        r2 == Drop(r, nd)
        r3 == Drop(r2, 1)
        ws == LeadCount(r3, {" ", "\t"})
    IN  IF nd >= 1 /\ r2 # << >> /\ r2[1] = "." /\ ws >= 1
        THEN [ok |-> TRUE, g1 |-> Drop(r3, ws), g2 |-> << >>]
        ELSE NoMatch

\* TABLE_ROW_RE = ^\s*\|(.+)\|\s*$
TABLE_ROW_RE(line) ==
    LET t == Strip(line)
    IN  IF Len(t) >= 3 /\ t[1] = "|" /\ t[Len(t)] = "|"
        THEN [ok |-> TRUE, g1 |-> SubSeq(t, 2, Len(t) - 1), g2 |-> << >>]
        ELSE NoMatch

\* The pattern !\[([^\]]*)\]\(([^)]+)\) tried at position i of text: end is
\* the position of the closing parenthesis.
ImgAt(text, i) ==
    LET p == Find(text, "]", i + 2)
        q == IF p = 0 THEN 0 ELSE Find(text, ")", p + 2)
    IN  IF /\ i + 1 <= Len(text) /\ text[i] = "!" /\ text[i + 1] = "["
           /\ p # 0 /\ p + 1 <= Len(text) /\ text[p + 1] = "("
           /\ q > p + 2
        THEN [ok |-> TRUE, end |-> q,
              g1 |-> SubSeq(text, i + 2, p - 1), g2 |-> SubSeq(text, p + 2, q - 1)]
        ELSE [ok |-> FALSE, end |-> 0, g1 |-> << >>, g2 |-> << >>]

\* IMG_LINE_RE = ^\s*!\[([^\]]*)\]\(([^)]+)\)\s*$
IMG_LINE_RE(line) ==
    LET t == Strip(line)
        m == ImgAt(t, 1)
    IN  IF m.ok /\ m.end = Len(t)
        THEN [ok |-> TRUE, g1 |-> m.g1, g2 |-> m.g2]
        ELSE NoMatch

\* IMG_INLINE_RE.search(text): the start of the leftmost match at or after
\* position from, or 0.
IMG_INLINE_RE_search(text, from) ==
    IF \E k \in from..Len(text) : ImgAt(text, k).ok
    THEN CHOOSE k \in from..Len(text) :
             ImgAt(text, k).ok /\ \A j \in from..(k-1) : ~ImgAt(text, j).ok
    ELSE 0

(***************************************************************************)
(* Image widths are Python floats in inches; the model keeps them as exact  *)
(* fractions n/d with d > 0.                                                *)
(***************************************************************************)
Frac(n, d) == [n |-> n, d |-> d]

FracGt(a, b) == a.n * b.d > b.n * a.d


FracDiv(a, b) == Frac(a.n * b.d, a.d * b.n)

FracMul(a, b) == Frac(a.n * b.n, a.d * b.d)

(***************************************************************************)
(* The document: the body content added so far, in call order.  Every       *)
(* block carries src, the numbers of the input lines whose text it holds    *)
(* (history information, read by the properties only).                      *)
(*   para    doc.add_paragraph(text)                                        *)
(*   list    the paragraphs one flush_list call adds (style List Number or  *)
(*           List Bullet)                                                   *)
(*   table   doc.add_table and its cell texts                               *)
(*   heading doc.add_heading(text, level)                                   *)
(*   image   a paragraph with one run holding a picture of the given width  *)
(***************************************************************************)
ParaBlock(text, src) == [kind |-> "para", text |-> text, src |-> src]

ListBlock(ordered, items, src) ==
    [kind |-> "list", ordered |-> ordered, items |-> items, src |-> src]

TableBlock(rows, src) == [kind |-> "table", rows |-> rows, src |-> src]

HeadingBlock(level, text, src) ==
    [kind |-> "heading", level |-> level, text |-> text, src |-> src]

ImageBlock(blob, width, src) ==
    [kind |-> "image", blob |-> blob, width |-> width, src |-> src]

\* The texts / the line numbers of a buffer of [text, ln] entries.
Texts(buf) == [k \in 1..Len(buf) |-> buf[k].text]

Lns(buf) == [k \in 1..Len(buf) |-> buf[k].ln]

\* add_paragraph(doc, text)
add_paragraph(doc, text, src) ==
    IF Strip(text) = << >>
    THEN Append(doc, ParaBlock(<< >>, src))
    ELSE Append(doc, ParaBlock(text, src))

\* flush_list without its buf.clear() (line 50).
flush_list_NoClear(doc, buf, ordered) ==
    IF buf = << >>
    THEN [doc |-> doc, buf |-> buf]
    ELSE [doc |-> Append(doc, ListBlock(ordered, Texts(buf), Lns(buf))),
          buf |-> buf]

\* flush_list(doc, buf, ordered): the document and the buffer afterwards.
flush_list(doc, buf, ordered) ==
    IF buf = << >>
    THEN [doc |-> doc, buf |-> buf]
    ELSE [doc |-> Append(doc, ListBlock(ordered, Texts(buf), Lns(buf))),
          buf |-> << >>]

\* The pattern with -{4,} for -{3,}.
AlignCell_FourDashes(c) ==
    LET a == IF c # << >> /\ c[1] = ":" THEN Drop(c, 1) ELSE c
        b == IF a # << >> /\ a[Len(a)] = ":" THEN SubSeq(a, 1, Len(a) - 1) ELSE a
    IN  Len(b) >= 4 /\ \A k \in 1..Len(b) : b[k] = "-"

\* re.fullmatch(r':?-{3,}:?', c)
AlignCell(c) ==
    LET a == IF c # << >> /\ c[1] = ":" THEN Drop(c, 1) ELSE c
        b == IF a # << >> /\ a[Len(a)] = ":" THEN SubSeq(a, 1, Len(a) - 1) ELSE a
    IN  Len(b) >= 3 /\ \A k \in 1..Len(b) : b[k] = "-"

\* is_align_row(row)
is_align_row(row) ==
    LET r     == Strip(StripChars(Strip(row), {"|"}))
        cells == StripAll(Split(r, "|"))
    IN  \A k \in 1..Len(cells) : AlignCell(cells[k])

\* The cells flush_table reads from one buffered row (lines 65-68).
RowCells(row) == StripAll(Split(TABLE_ROW_RE(row).g1, "|"))

\* The column count taken from the first row instead of the longest.
MaxLen_FirstRow(matrix) == Len(matrix[1])

\* max(len(r) for r in matrix)
MaxLen(matrix) ==
    CHOOSE n \in {Len(matrix[k]) : k \in 1..Len(matrix)} :
        \A k \in 1..Len(matrix) : Len(matrix[k]) <= n

\* Lines 75-77: the cell texts of row `row` in a table of `cols` columns.
PadRow(row, cols) == [j \in 1..cols |-> IF j <= Len(row) THEN row[j] ELSE << >>]

\* flush_table(doc, rows): the document afterwards.
\* Line 60: filtered = [r for r in rows if not is_align_row(r)]
Filtered(rows) == SelectSeq(rows, LAMBDA r : ~is_align_row(r.text))

\* Lines 64-67: the filtered rows TABLE_ROW_RE matches.
Matched(filtered) == SelectSeq(filtered, LAMBDA r : TABLE_ROW_RE(r.text).ok)

\* Lines 72-77: the table of a non-empty matrix.
TableOf(matrix, src) ==
    With(MaxLen(matrix), LAMBDA cols :
        TableBlock([k \in 1..Len(matrix) |-> PadRow(matrix[k], cols)], src))

\* flush_table(doc, rows): the document afterwards.  It returns early for
\* no rows, no filtered rows or an empty matrix.
flush_table(doc, rows) ==
    With(Matched(Filtered(rows)), LAMBDA kept :
        IF kept = << >>
        THEN doc
        ELSE Append(doc, TableOf([k \in 1..Len(kept) |-> RowCells(kept[k].text)],
                                 Lns(kept))))

(***************************************************************************)
(* Images.  An image is the bytes the caller supplied under a filename:     *)
(*   empty      the bytes are b"" (falsy)                                   *)
(*   pil_ok     PIL's Image.open reads them                                 *)
(*   docx_ok    python-docx's add_picture reads them (it raises otherwise)  *)
(*   width_px   im.size[0]                                                  *)
(*   has_dpi    im.info holds "dpi";  dpi is its first component            *)
(***************************************************************************)
Blob(id, empty, pil_ok, docx_ok, width_px, has_dpi, dpi) ==
    [id |-> id, empty |-> empty, pil_ok |-> pil_ok, docx_ok |-> docx_ok,
     width_px |-> width_px, has_dpi |-> has_dpi, dpi |-> dpi]

\* What images.get(fname) returns for a missing key.
None == Blob("None", TRUE, FALSE, FALSE, 0, FALSE, 0)

\* images.get(fname)
images_get(imgs, fname) ==
    IF fname \in DOMAIN imgs THEN imgs[fname] ELSE None

\* `if blob:`
Truthy(blob) == ~blob.empty

\* Line 90: im.info.get("dpi", (96, 96))[0] or 96
DpiX(blob) == IF blob.has_dpi /\ blob.dpi # 0 THEN blob.dpi ELSE 96

\* The width without the clamp of lines 93-94.
FitWidth_NoClamp(blob, usable_width_in) == Frac(blob.width_px, DpiX(blob))

\* Lines 91-95: the width, in inches, the picture is given in the try block.
FitWidth(blob, usable_width_in) ==
    With(Frac(blob.width_px, DpiX(blob)), LAMBDA width_in :
        FracMul(width_in, IF FracGt(width_in, usable_width_in)
                          THEN FracDiv(usable_width_in, width_in)
                          ELSE Frac(1, 1)))

\* Lines 103-106: the fallback after the try block, which nothing guards.
FallbackPicture(doc, blob, usable_width_in, src) ==
    IF blob.docx_ok
    THEN [doc |-> Append(doc, ImageBlock(blob, usable_width_in, src)), raised |-> FALSE]
    ELSE [doc |-> Append(doc, ParaBlock(<< >>, src)), raised |-> TRUE]

\* add_image_paragraph(doc, img_bytes): the document afterwards, and whether
\* an exception left the function.
add_image_paragraph(doc, blob, usable_width_in, src) ==
    IF blob.pil_ok
    THEN IF blob.docx_ok
         THEN [doc |-> Append(doc, ImageBlock(blob, FitWidth(blob, usable_width_in), src)),
               raised |-> FALSE]
         ELSE \* add_picture raised inside the try, after doc.add_paragraph()
              FallbackPicture(Append(doc, ParaBlock(<< >>, src)), blob, usable_width_in, src)
    ELSE FallbackPicture(doc, blob, usable_width_in, src)

\* The parts with each image put before the text that precedes it.
RECURSIVE InlineParts_ImageFirst(_, _)
InlineParts_ImageFirst(text, from) ==
    With(IMG_INLINE_RE_search(text, from), LAMBDA s :
        IF s = 0
        THEN IF from <= Len(text)
             THEN << [kind |-> "text", payload |-> SubSeq(text, from, Len(text))] >>
             ELSE << >>
        ELSE With(ImgAt(text, s), LAMBDA m :
                 << [kind |-> "img", payload |-> Strip(m.g2)] >>
                 \o (IF s > from
                     THEN << [kind |-> "text", payload |-> SubSeq(text, from, s - 1)] >>
                     ELSE << >>)
                 \o InlineParts_ImageFirst(text, m.end + 1)))

\* Lines 109-118: the parts of text from position `from` on.
RECURSIVE InlineParts(_, _)
InlineParts(text, from) ==
    With(IMG_INLINE_RE_search(text, from), LAMBDA s :
        IF s = 0
        THEN IF from <= Len(text)
             THEN << [kind |-> "text", payload |-> SubSeq(text, from, Len(text))] >>
             ELSE << >>
        ELSE With(ImgAt(text, s), LAMBDA m :
                 (IF s > from
                  THEN << [kind |-> "text", payload |-> SubSeq(text, from, s - 1)] >>
                  ELSE << >>)
                 \o << [kind |-> "img", payload |-> Strip(m.g2)] >>
                 \o InlineParts(text, m.end + 1)))

\* Lines 124-134: the loop over the parts, left by the first exception.
\* Lines 125-129: a text part.
EmitText(doc, stripped, src) ==
    IF stripped # << >>
    THEN [doc |-> add_paragraph(doc, stripped, src), raised |-> FALSE]
    ELSE [doc |-> Append(doc, ParaBlock(<< >>, src)), raised |-> FALSE]

\* A missing image raising instead of being skipped.
EmitImage_RaiseIfMissing(doc, blob, usable_width_in, src) ==
    IF Truthy(blob)
    THEN add_image_paragraph(doc, blob, usable_width_in, src)
    ELSE [doc |-> doc, raised |-> TRUE]

\* Lines 131-134: an image part.
EmitImage(doc, blob, usable_width_in, src) ==
    IF Truthy(blob)
    THEN add_image_paragraph(doc, blob, usable_width_in, src)
    ELSE [doc |-> doc, raised |-> FALSE]

\* Lines 124-134: the loop over the parts, left by the first exception.
RECURSIVE EmitParts(_, _, _, _, _)
EmitParts(doc, parts, imgs, usable_width_in, src) ==
    IF parts = << >>
    THEN [doc |-> doc, raised |-> FALSE]
    ELSE With(IF parts[1].kind = "text"
              THEN EmitText(doc, Strip(parts[1].payload), src)
              ELSE EmitImage(doc, images_get(imgs, parts[1].payload),
                             usable_width_in, src),
              LAMBDA one :
                  IF one.raised
                  THEN one
                  ELSE EmitParts(one.doc, Tail(parts), imgs, usable_width_in, src))

\* handle_inline_images(doc, text, images)
handle_inline_images(doc, text, imgs, usable_width_in, src) ==
    With(InlineParts(text, 1), LAMBDA parts :
        IF parts = << >>
        THEN [doc |-> add_paragraph(doc, text, src), raised |-> FALSE]
        ELSE EmitParts(doc, parts, imgs, usable_width_in, src))

\* flush_para(): the document and the paragraph buffer afterwards, and
\* whether an exception left the function.
flush_para(doc, buf, imgs, usable_width_in) ==
    IF buf = << >>
    THEN [doc |-> doc, para_buf |-> buf, raised |-> FALSE]
    ELSE With(Strip(JoinSpace(Texts(buf))), LAMBDA text :
             With(IF IMG_INLINE_RE_search(text, 1) # 0
                  THEN handle_inline_images(doc, text, imgs, usable_width_in, Lns(buf))
                  ELSE [doc |-> add_paragraph(doc, text, Lns(buf)), raised |-> FALSE],
                  LAMBDA r : [doc |-> r.doc, para_buf |-> << >>, raised |-> r.raised]))

(***************************************************************************)
(* State of one call of markdown_to_doc(md_text, images).                   *)
(***************************************************************************)
VARIABLES
    lines,      \* md_text.splitlines()
    images,     \* the images dict: filename -> bytes
    usable,     \* usable_width_in of the document's last section (line 83)
    idx,        \* number of the line the for loop of line 154 handles next
    pc,         \* "loop", "done" (returned) or "raised" (left by an exception)
    doc,        \* the document body
    ul_buf,     \* buffers of [text, ln] entries: the text the source
    ol_buf,     \*   stores, and the number of the line it came from
    tbl_buf,
    para_buf,
    in_table

(***************************************************************************)
(* State of one request to /merge (merge_docx).                             *)
(***************************************************************************)
VARIABLES
    docs_dict,  \* the "docs" field: key -> document
    keys,       \* sorted(docs_dict.keys(), key=lambda x: int(x))
    ki,         \* position in keys of the key the for loop of line 329 handles next
    merged,     \* the merged document: [none, body]
    mpc         \* "idle", "loop", "done", "error400" or "raised"

mergeVars == << docs_dict, keys, ki, merged, mpc >>

vars == << lines, images, usable, idx, pc, doc, ul_buf, ol_buf, tbl_buf,
           para_buf, in_table, docs_dict, keys, ki, merged, mpc >>

\* The locals of markdown_to_doc as one record, for the helpers below.
Cur ==
    [doc |-> doc, ul_buf |-> ul_buf, ol_buf |-> ol_buf, tbl_buf |-> tbl_buf,
     para_buf |-> para_buf, in_table |-> in_table, raised |-> FALSE]

\* A call of flush_para() unless an exception has already left the function.
DoFlushPara(st) ==
    IF st.raised THEN st
    ELSE With(flush_para(st.doc, st.para_buf, images, usable), LAMBDA r :
             [st EXCEPT !.doc = r.doc, !.para_buf = r.para_buf, !.raised = r.raised])

\* flush_list(doc, ul_buf, ordered=False)
DoFlushUl(st) ==
    IF st.raised THEN st
    ELSE With(flush_list(st.doc, st.ul_buf, FALSE), LAMBDA r :
             [st EXCEPT !.doc = r.doc, !.ul_buf = r.buf])

\* flush_list(doc, ol_buf, ordered=True)
DoFlushOl(st) ==
    IF st.raised THEN st
    ELSE With(flush_list(st.doc, st.ol_buf, TRUE), LAMBDA r :
             [st EXCEPT !.doc = r.doc, !.ol_buf = r.buf])

\* Lines 172-174, 196-198, 206-208, 213-215: flush the paragraph and both lists.
FlushAll(st) == DoFlushOl(DoFlushUl(DoFlushPara(st)))

\* The table flushed without `tbl_buf = []` (line 167).
DoCloseTable_KeepRows(st) ==
    IF st.raised THEN st
    ELSE [st EXCEPT !.doc = flush_table(st.doc, st.tbl_buf),
                    !.in_table = FALSE]

\* Lines 166-168: flush_table(doc, tbl_buf); tbl_buf = []; in_table = False
DoCloseTable(st) ==
    IF st.raised THEN st
    ELSE [st EXCEPT !.doc = flush_table(st.doc, st.tbl_buf),
                    !.tbl_buf = << >>,
                    !.in_table = FALSE]

\* Lines 161-168: a line that is no table row closes the open table.
CloseTable(st) ==
    IF ~st.in_table THEN st ELSE DoCloseTable(FlushAll(st))

\* The kind of a line, in the order the loop body tests for it.
Kind(line) ==
    IF TABLE_ROW_RE(line).ok THEN "table"
    ELSE IF HEADING_RE(line).ok THEN "heading"
    ELSE IF UL_RE(line).ok THEN "ul"
    ELSE IF OL_RE(line).ok THEN "ol"
    ELSE IF IMG_LINE_RE(line).ok THEN "img"
    ELSE IF Strip(line) = << >> THEN "blank"
    ELSE "text"

\* The loop body is about to handle a line of kind k.
AtLine(k) == pc = "loop" /\ idx <= Len(lines) /\ Kind(lines[idx]) = k

\* The end of one pass of the loop body: the locals become st; an exception
\* leaves the function.
Commit(st) ==
    /\ doc' = st.doc
    /\ ul_buf' = st.ul_buf
    /\ ol_buf' = st.ol_buf
    /\ tbl_buf' = st.tbl_buf
    /\ para_buf' = st.para_buf
    /\ in_table' = st.in_table
    /\ pc' = IF st.raised THEN "raised" ELSE pc
    /\ idx' = IF st.raised THEN idx ELSE idx + 1
    /\ UNCHANGED << lines, images, usable >>
    /\ UNCHANGED mergeVars

\* The row buffered without `in_table = True` (line 158).
TableRowLine_NoInTable ==
    /\ AtLine("table")
    /\ Commit([Cur EXCEPT !.tbl_buf = Append(tbl_buf, [text |-> lines[idx], ln |-> idx])])

\* Lines 157-160
TableRowLine ==
    /\ AtLine("table")
    /\ Commit([Cur EXCEPT !.in_table = TRUE,
                          !.tbl_buf = Append(tbl_buf, [text |-> lines[idx], ln |-> idx])])

\* The clamp with 3 for 9.
ClampLevel_ToThree(level) ==
    LET lo == IF level > 1 THEN level ELSE 1
    IN  IF lo < 3 THEN lo ELSE 3

\* Line 177: level = min(max(level, 1), 9)
ClampLevel(level) ==
    LET lo == IF level > 1 THEN level ELSE 1
    IN  IF lo < 9 THEN lo ELSE 9

\* Lines 175-178: the heading a matched line adds.
HeadingOf(m, src) == HeadingBlock(ClampLevel(Len(m.g1)), Strip(m.g2), src)

\* Line 178: doc.add_heading(text, level=level)
AddHeading(st, line, ln) ==
    IF st.raised THEN st
    ELSE [st EXCEPT !.doc = Append(st.doc, HeadingOf(HEADING_RE(line), << ln >>))]

\* The heading added before the flushes of lines 172-174.
HeadingLine_HeadingFirst ==
    /\ AtLine("heading")
    /\ Commit(FlushAll(AddHeading(CloseTable(Cur), lines[idx], idx)))

\* Lines 170-179
HeadingLine ==
    /\ AtLine("heading")
    /\ Commit(AddHeading(FlushAll(CloseTable(Cur)), lines[idx], idx))

\* The item assigned to the buffer instead of appended.
AppendUl_Overwrite(st, line, ln) ==
    IF st.raised THEN st
    ELSE [st EXCEPT !.ul_buf = << [text |-> Strip(UL_RE(line).g1), ln |-> ln] >>]

\* Line 186: ul_buf.append(m_ul.group(1).strip())
AppendUl(st, line, ln) ==
    IF st.raised THEN st
    ELSE [st EXCEPT !.ul_buf = Append(st.ul_buf,
                                      [text |-> Strip(UL_RE(line).g1), ln |-> ln])]

\* Lines 183-187
UlLine ==
    /\ AtLine("ul")
    /\ Commit(AppendUl(DoFlushOl(DoFlushPara(CloseTable(Cur))), lines[idx], idx))

\* Line 191: ol_buf.append(m_ol.group(1).strip())
AppendOl(st, line, ln) ==
    IF st.raised THEN st
    ELSE [st EXCEPT !.ol_buf = Append(st.ol_buf,
                                      [text |-> Strip(OL_RE(line).g1), ln |-> ln])]

\* Lines 188-192
OlLine ==
    /\ AtLine("ol")
    /\ Commit(AppendOl(DoFlushUl(DoFlushPara(CloseTable(Cur))), lines[idx], idx))

\* Lines 201-202: `if blob: add_image_paragraph(doc, blob)`
PlaceImage(st, blob, src) ==
    IF st.raised \/ ~Truthy(blob) THEN st
    ELSE With(add_image_paragraph(st.doc, blob, usable, src), LAMBDA r :
             [st EXCEPT !.doc = r.doc, !.raised = r.raised])

\* Lines 199-202: the block image of a matched line.
BlockImage(st, line, ln) ==
    PlaceImage(st, images_get(images, Strip(IMG_LINE_RE(line).g2)), << ln >>)

\* Lines 194-203
ImageLine ==
    /\ AtLine("img")
    /\ Commit(BlockImage(FlushAll(CloseTable(Cur)), lines[idx], idx))

\* The blank line falling through to line 211.
BlankLine_AsText ==
    /\ AtLine("blank")
    /\ Commit(With(CloseTable(Cur), LAMBDA st :
           IF st.raised THEN st
           ELSE [st EXCEPT !.para_buf = Append(st.para_buf,
                                               [text |-> Strip(lines[idx]), ln |-> idx])]))

\* Lines 205-209
BlankLine ==
    /\ AtLine("blank")
    /\ Commit(FlushAll(CloseTable(Cur)))

\* The line appended without .strip().
AppendPara_Unstripped(st, line, ln) ==
    IF st.raised THEN st
    ELSE [st EXCEPT !.para_buf = Append(st.para_buf, [text |-> line, ln |-> ln])]

\* Line 211: para_buf.append(line.strip())
AppendPara(st, line, ln) ==
    IF st.raised THEN st
    ELSE [st EXCEPT !.para_buf = Append(st.para_buf,
                                        [text |-> Strip(line), ln |-> ln])]

\* Line 211
TextLine ==
    /\ AtLine("text")
    /\ Commit(AppendPara(CloseTable(Cur), lines[idx], idx))

\* Lines 216-217: `if tbl_buf: flush_table(doc, tbl_buf)`; the buffer is kept.
FinalTable(st) ==
    IF st.raised \/ st.tbl_buf = << >> THEN st
    ELSE [st EXCEPT !.doc = flush_table(st.doc, st.tbl_buf)]

\* The return of markdown_to_doc, or the exception that leaves it.
Return(st) ==
    /\ doc' = st.doc
    /\ para_buf' = st.para_buf
    /\ ul_buf' = st.ul_buf
    /\ ol_buf' = st.ol_buf
    /\ pc' = IF st.raised THEN "raised" ELSE "done"
    /\ UNCHANGED << lines, images, usable, idx, tbl_buf, in_table >>
    /\ UNCHANGED mergeVars

\* The table flushed before the paragraph and the lists.
EndOfInput_TableFirst ==
    /\ pc = "loop"
    /\ idx > Len(lines)
    /\ Return(FlushAll(FinalTable(Cur)))

\* Lines 213-217: after the loop.
EndOfInput ==
    /\ pc = "loop"
    /\ idx > Len(lines)
    /\ Return(FinalTable(FlushAll(Cur)))

Next ==
    \/ TableRowLine
    \/ HeadingLine
    \/ UlLine
    \/ OlLine
    \/ ImageLine
    \/ BlankLine
    \/ TextLine
    \/ EndOfInput

(***************************************************************************)
(* Inputs.  A conversion starts from any sequence of at most MaxLines       *)
(* lines drawn from a catalogue, an images dict and a page width.           *)
(***************************************************************************)
LHeading == << "#", " ", "T" >>                                \* "# T"
LUlA     == << "-", " ", "a" >>                                \* "- a"
LUlB     == << "-", " ", "b" >>                                \* "- b"
LOlC     == << "1", ".", " ", "c" >>                           \* "1. c"
LRow     == << "|", "x", "|" >>                                \* "|x|"
LImgP    == << "!", "[", "]", "(", "p", ")" >>                 \* "![](p)"
LImgQ    == << "!", "[", "i", "]", "(", "q", ")" >>            \* "![i](q)"
LBlank   == << >>                                              \* ""
LText    == << " ", "t", " " >>                                \* " t "
LInlineP == << "u", "!", "[", "]", "(", "p", ")", "v" >>       \* "u![](p)v"
LInlineQ == << "!", "[", "]", "(", "q", ")", " ", "w" >>       \* "![](q) w"
LOpen    == << "!", "[", "]", "(" >>                           \* "![]("
LClose   == << "p", ")" >>                                     \* "p)"

Lines ==
    { LHeading, LUlA, LUlB, LOlC, LRow, LImgP, LImgQ, LBlank, LText,
      LInlineP, LInlineQ, LOpen, LClose }

\* A picture both libraries read: 960 px at 96 dpi, 10 inches wide.
GoodBlob == Blob("p", FALSE, TRUE, TRUE, 960, TRUE, 96)

\* The images dicts of the general specification: empty, or "p" -> GoodBlob.
ImageSets == { << >>, << "p" >> :> GoodBlob }

\* The usable width of python-docx's default page: 6 inches.
DefaultUsable == Frac(6, 1)

\* No request to /merge is being served.
MergeIdle ==
    /\ docs_dict = << >>
    /\ keys = << >>
    /\ ki = 1
    /\ merged = [none |-> TRUE, body |-> << >>]
    /\ mpc = "idle"

InputsOver(catalogue) == UNION { [1..n -> catalogue] : n \in 0..MaxLines }

InitWith(catalogue, imageSets, usables) ==
    /\ lines \in InputsOver(catalogue)
    /\ images \in imageSets
    /\ usable \in usables
    /\ idx = 1
    /\ pc = "loop"
    /\ doc = << >>
    /\ ul_buf = << >>
    /\ ol_buf = << >>
    /\ tbl_buf = << >>
    /\ para_buf = << >>
    /\ in_table = FALSE
    /\ MergeIdle

Init == InitWith(Lines, ImageSets, { DefaultUsable })

Spec == Init /\ [][Next]_vars

(***************************************************************************)
(* Tables: the rows of the specification SpecTable, with one line of every  *)
(* other kind beside them.                                                  *)
(***************************************************************************)
TRowAB     == << "|", "a", "|", "b", "|" >>                       \* "|a|b|"
TRowC      == << "|", " ", "c", " ", "|" >>                       \* "| c |"
TRowABC    == << " ", "|", "a", "|", "b", "|", "c", "|" >>        \* " |a|b|c|"
TAlign1    == << "|", "-", "-", "-", "|" >>                       \* "|---|"
TAlign2    == << "|", ":", "-", "-", "-", "|", " ",
                 "-", "-", "-", ":", "|" >>                       \* "|:---| ---:|"
TShortDash == << "|", "-", "-", "|", "b", "|" >>                  \* "|--|b|"
TDashEmpty == << "|", "-", "-", "-", "|", "|" >>                  \* "|---||"

TableLines ==
    { TRowAB, TRowC, TRowABC, TAlign1, TAlign2, TShortDash, TDashEmpty,
      LHeading, LUlA, LOlC, LImgQ, LBlank, LText }

InitTable == InitWith(TableLines, { << >> }, { DefaultUsable })

SpecTable == InitTable /\ [][Next]_vars

(***************************************************************************)
(* Headings: the lines of the specification SpecHeading.                    *)
(***************************************************************************)
\* k '#' characters, then " a".
Hashes(k) == [j \in 1..k |-> "#"] \o << " ", "a" >>

HNoSpace == << "#", "a" >>                                        \* "#a"
HEmpty   == << "#", " " >>                                        \* "# "
HPadded  == << "#", "#", "\t", " ", "b", " " >>                   \* "##\t b "

HeadingLines ==
    { Hashes(k) : k \in 1..7 } \cup
    { HNoSpace, HEmpty, HPadded, LUlA, LOlC, LRow, LImgQ, LBlank, LText }

InitHeading == InitWith(HeadingLines, { << >> }, { DefaultUsable })

SpecHeading == InitHeading /\ [][Next]_vars

(***************************************************************************)
(* Pictures: the images dicts of the specification SpecFit.                 *)
(***************************************************************************)
FitLines == { LHeading, LUlA, LOlC, LRow, LImgP, LBlank, LInlineP }

\* Pictures both libraries read, of several widths and dpi entries.
GoodBlobs ==
    { Blob("p", FALSE, TRUE, TRUE, w, d[1], d[2]) :
        w \in { 480, 576, 624, 2000 },
        d \in { << FALSE, 0 >>, << TRUE, 0 >>, << TRUE, 96 >>, << TRUE, 200 >> } }

\* Bytes one library or both cannot read, and empty bytes.
BadBlobs ==
    { Blob("p", FALSE, TRUE, FALSE, 480, TRUE, 96),
      Blob("p", FALSE, FALSE, TRUE, 0, FALSE, 0),
      Blob("p", FALSE, FALSE, FALSE, 0, FALSE, 0),
      Blob("p", TRUE, FALSE, FALSE, 0, FALSE, 0) }

FitImageSets == { << >> } \cup { << "p" >> :> b : b \in GoodBlobs \cup BadBlobs }

Usables == { Frac(6, 1), Frac(13, 2) }

InitFit == InitWith(FitLines, FitImageSets, Usables)

SpecFit == InitFit /\ [][Next]_vars

(***************************************************************************)
(* Lists: the lines of the specification SpecList, list items and list      *)
(* markers with nothing after them.                                         *)
(***************************************************************************)
LStarD    == << "*", " ", "d" >>                                     \* "* d"
LOl12E    == << "1", "2", ".", " ", "e" >>                          \* "12. e"
MDash     == << "-" >>                                               \* "-"
MDashSp   == << "-", " " >>                                          \* "- "
MStar     == << "*" >>                                               \* "*"
MPlusTab  == << "+", "\t" >>                                         \* "+\t"
MOne      == << "1", "." >>                                          \* "1."
MOneSp    == << "1", ".", " " >>                                     \* "1. "

ListLines ==
    { LUlA, LUlB, LOlC, LStarD, LOl12E, MDash, MDashSp, MStar, MPlusTab, MOne,
      MOneSp, LText, LBlank, LRow, LHeading, LImgQ }

InitList == InitWith(ListLines, { << >> }, { DefaultUsable })

SpecList == InitList /\ [][Next]_vars

(***************************************************************************)
(* Inline images: the lines and images dicts of the specification           *)
(* SpecInline.                                                              *)
(***************************************************************************)
\* "![alt](pic.png) trailing text"
LScenarioC ==
    << "!", "[", "a", "l", "t", "]", "(", "p", "i", "c", ".", "p", "n", "g", ")" >> \o
    << " ", "t", "r", "a", "i", "l", "i", "n", "g", " ", "t", "e", "x", "t" >>
\* "![](p) ![](q)"
LTwoImgs == << "!", "[", "]", "(", "p", ")", " ", "!", "[", "]", "(", "q", ")" >>
\* "![](p)![](p)"
LAdjacent == << "!", "[", "]", "(", "p", ")", "!", "[", "]", "(", "p", ")" >>
\* "x![](p)"
LTailImg == << "x", "!", "[", "]", "(", "p", ")" >>
\* "![](p)y"
LHeadImg == << "!", "[", "]", "(", "p", ")", "y" >>

InlineLines ==
    { LScenarioC, LTwoImgs, LAdjacent, LTailImg, LHeadImg,
      LHeading, LUlA, LOlC, LRow, LImgP, LBlank }

\* The filename "pic.png", and its picture: 192 px at 96 dpi, 2 inches wide.
PicPng == << "p", "i", "c", ".", "p", "n", "g" >>

PicBlob == Blob("pic.png", FALSE, TRUE, TRUE, 192, TRUE, 96)

\* The images dicts: empty, "p", or "p" and "pic.png".
InlineImageSets ==
    { << >>, << "p" >> :> GoodBlob, (<< "p" >> :> GoodBlob) @@ (PicPng :> PicBlob) }

InitInline == InitWith(InlineLines, InlineImageSets, { DefaultUsable })

SpecInline == InitInline /\ [][Next]_vars

(***************************************************************************)
(* merge_docx, lines 328-353.  A document is what Document(BytesIO(...))    *)
(* reads from one value of docs_dict:                                       *)
(*   decodable  b64decode and Document(...) succeed on the value            *)
(*   n          the number of block elements (w:p, w:tbl) of its body       *)
(*   sectPr     the body ends with a w:sectPr element                       *)
(* A body is the sequence of the children of w:body.  Each child is         *)
(*   [kind |-> "block",  key, n]   block n of the document of that key      *)
(*   [kind |-> "sectPr", key, n]   the section properties of that document  *)
(*   [kind |-> "break",  key, n]   the paragraph add_page_break() adds      *)
(*                                 while the document of that key is merged *)
(***************************************************************************)
MaxDocs == 3

\* The value of one decimal digit.
DigitOf(c) ==
    CASE c = "0" -> 0 [] c = "1" -> 1 [] c = "2" -> 2 [] c = "3" -> 3
      [] c = "4" -> 4 [] c = "5" -> 5 [] c = "6" -> 6 [] c = "7" -> 7
      [] c = "8" -> 8 [] c = "9" -> 9

\* int(x) of a string of decimal digits (line 329).
RECURSIVE int(_)
int(x) ==
    IF x = << >> THEN 0
    ELSE int(SubSeq(x, 1, Len(x) - 1)) * 10 + DigitOf(x[Len(x)])

\* sorted(docs_dict.keys(), key=lambda x: int(x)), for keys of distinct values.
RECURSIVE sorted(_)
sorted(ks) ==
    IF ks = {} THEN << >>
    ELSE LET least == CHOOSE k \in ks : \A j \in ks : int(k) <= int(j)
         IN  << least >> \o sorted(ks \ { least })

\* subdoc.element.body of the document d stored under key.
BodyOf(key, d) ==
    [i \in 1..d.n |-> [kind |-> "block", key |-> key, n |-> i]]
    \o (IF d.sectPr THEN << [kind |-> "sectPr", key |-> key, n |-> 0] >> ELSE << >>)

\* The position of the first w:sectPr child of a body, or 0.
FirstSectPr(body) ==
    IF \E p \in 1..Len(body) : body[p].kind = "sectPr"
    THEN CHOOSE p \in 1..Len(body) :
             body[p].kind = "sectPr" /\ \A q \in 1..(p - 1) : body[q].kind # "sectPr"
    ELSE 0

\* merged.add_page_break(): python-docx adds the new paragraph with
\* CT_Body.add_p(), which inserts it before the first w:sectPr child of the
\* body (insert_element_before(p, "w:sectPr")), or appends it when the body
\* has none.
add_page_break(body, key) ==
    With(FirstSectPr(body), LAMBDA p :
        IF p = 0
        THEN Append(body, [kind |-> "break", key |-> key, n |-> 0])
        ELSE SubSeq(body, 1, p - 1)
             \o << [kind |-> "break", key |-> key, n |-> 0] >>
             \o SubSeq(body, p, Len(body)))

\* The key and the document of this pass of the loop.
MergeKey == keys[ki]

\* The loop of line 329 is about to handle a key.
AtKey == mpc = "loop" /\ ki <= Len(keys)

\* Lines 331-335: the value does not decode to a document: answer 400.
MergeBadDoc ==
    /\ AtKey
    /\ ~docs_dict[MergeKey].decodable
    /\ mpc' = "error400"
    /\ UNCHANGED << docs_dict, keys, ki, merged >>
    /\ UNCHANGED << lines, images, usable, idx, pc, doc, ul_buf, ol_buf, tbl_buf,
                    para_buf, in_table >>

\* Lines 337-338: the first document becomes the merged document.
MergeFirst ==
    /\ AtKey
    /\ docs_dict[MergeKey].decodable
    /\ merged.none
    /\ merged' = [none |-> FALSE, body |-> BodyOf(MergeKey, docs_dict[MergeKey])]
    /\ ki' = ki + 1
    /\ UNCHANGED << docs_dict, keys, mpc >>
    /\ UNCHANGED << lines, images, usable, idx, pc, doc, ul_buf, ol_buf, tbl_buf,
                    para_buf, in_table >>

\* Lines 339-342: a page break, then every element of the document's body is
\* appended to the end of the merged body.
MergeAppend ==
    /\ AtKey
    /\ docs_dict[MergeKey].decodable
    /\ ~merged.none
    /\ merged' = [none |-> FALSE,
                  body |-> add_page_break(merged.body, MergeKey)
                           \o BodyOf(MergeKey, docs_dict[MergeKey])]
    /\ ki' = ki + 1
    /\ UNCHANGED << docs_dict, keys, mpc >>
    /\ UNCHANGED << lines, images, usable, idx, pc, doc, ul_buf, ol_buf, tbl_buf,
                    para_buf, in_table >>

\* Lines 344-353: merged.save(buf) and the answer; with no document at all
\* merged is None and save raises.
MergeSave ==
    /\ mpc = "loop"
    /\ ki > Len(keys)
    /\ mpc' = IF merged.none THEN "raised" ELSE "done"
    /\ UNCHANGED << docs_dict, keys, ki, merged >>
    /\ UNCHANGED << lines, images, usable, idx, pc, doc, ul_buf, ol_buf, tbl_buf,
                    para_buf, in_table >>

NextMerge ==
    \/ MergeBadDoc
    \/ MergeFirst
    \/ MergeAppend
    \/ MergeSave

\* The keys of the requests: "1", "2", "10", "03".
MergeKeys == { << "1" >>, << "2" >>, << "1", "0" >>, << "0", "3" >> }

\* The documents of the requests.
MergeDocs == [decodable : BOOLEAN, n : 1..2, sectPr : BOOLEAN]

\* The docs dicts of the requests: at most MaxDocs documents.
DocsDicts ==
    UNION { [ks -> MergeDocs] : ks \in { k \in SUBSET MergeKeys : Cardinality(k) <= MaxDocs } }

\* No conversion is running while a merge request is served.
InitMerge ==
    /\ docs_dict \in DocsDicts
    /\ keys = sorted(DOMAIN docs_dict)
    /\ ki = 1
    /\ merged = [none |-> TRUE, body |-> << >>]
    /\ mpc = "loop"
    /\ lines = << >>
    /\ images = << >>
    /\ usable = DefaultUsable
    /\ idx = 1
    /\ pc = "idle"
    /\ doc = << >>
    /\ ul_buf = << >>
    /\ ol_buf = << >>
    /\ tbl_buf = << >>
    /\ para_buf = << >>
    /\ in_table = FALSE

SpecMerge == InitMerge /\ [][NextMerge]_vars

(***************************************************************************)
(* Properties.                                                              *)
(***************************************************************************)
\* The elements of a sequence.
Range(q) == { q[k] : k \in 1..Len(q) }

\* The positions of the blocks of one kind.
BlocksOf(kind) == { k \in 1..Len(doc) : doc[k].kind = kind }

\* The lines the loop has handled so far.
Handled == 1..(idx - 1)

\* C1: blocks are emitted in the order of the input lines that produced
\* them: of two blocks holding the text of different lines, the one emitted
\* first holds the earlier lines.  (Blocks with the same src are the parts
\* of one paragraph.)
C1_BlocksInLineOrder ==
    \A p \in 1..Len(doc) : \A q \in 1..Len(doc) :
        (p < q /\ doc[p].src # doc[q].src) =>
            \A i \in Range(doc[p].src) : \A j \in Range(doc[q].src) : i < j

\* C2: no list block mixes ordered and unordered items, at most one of the
\* two list buffers is non-empty at any time, and "- a", "- b", "1. c"
\* gives the unordered list [a, b] immediately followed by the ordered
\* list [c].
C2_ListsNeverMix ==
    /\ ul_buf = << >> \/ ol_buf = << >>
    /\ \A k \in BlocksOf("list") : \A ln \in Range(doc[k].src) :
           Kind(lines[ln]) = IF doc[k].ordered THEN "ol" ELSE "ul"
    /\ (pc = "done" /\ lines = << LUlA, LUlB, LOlC >>) =>
           doc = << ListBlock(FALSE, << << "a" >>, << "b" >> >>, << 1, 2 >>),
                    ListBlock(TRUE, << << "c" >> >>, << 3 >>) >>

\* C2's case: the scenario has run to its end, and a list of each kind was
\* emitted.
C2_Witness ==
    /\ pc = "done"
    /\ lines = << LUlA, LUlB, LOlC >>
    /\ Len(doc) = 2
    /\ doc[1].kind = "list" /\ ~doc[1].ordered
    /\ doc[2].kind = "list" /\ doc[2].ordered

\* The pattern :?-{3,}:? of an alignment cell, as the specification gives it.
IsAlignmentCell(c) ==
    \E lead \in {0, 1} : \E trail \in {0, 1} :
        /\ Len(c) >= lead + trail + 3
        /\ lead = 1 => c[1] = ":"
        /\ trail = 1 => c[Len(c)] = ":"
        /\ \A k \in (lead + 1)..(Len(c) - trail) : c[k] = "-"

\* An alignment row: every cell is an alignment cell.
IsAlignmentRow(cells) == \A j \in 1..Len(cells) : IsAlignmentCell(cells[j])

\* The cells of input line ln, a table row.
CellsOfLine(ln) == RowCells(lines[ln])

\* C3: no emitted table holds an alignment row, neither among the rows it
\* shows nor among the input rows it was built from, and a table is never
\* emitted without rows (rows that are all alignment rows give no block).
C3_NoAlignmentRowInTable ==
    \A k \in BlocksOf("table") :
        /\ doc[k].rows # << >>
        /\ doc[k].src # << >>
        /\ \A r \in 1..Len(doc[k].rows) : ~IsAlignmentRow(doc[k].rows[r])
        /\ \A ln \in Range(doc[k].src) : ~IsAlignmentRow(CellsOfLine(ln))

\* C3's case: a table was emitted from a run of rows that held an alignment
\* row next to a kept row.
C3_Witness ==
    /\ pc = "done"
    /\ \E k \in BlocksOf("table") : \E ln \in 1..Len(lines) :
           /\ Kind(lines[ln]) = "table"
           /\ IsAlignmentRow(CellsOfLine(ln))
           /\ (ln + 1) \in Range(doc[k].src) \/ (ln - 1) \in Range(doc[k].src)

\* Lines s..e are a maximal run of consecutive table-row lines.
IsTableRun(s, e) ==
    /\ s <= e
    /\ \A i \in s..e : Kind(lines[i]) = "table"
    /\ s = 1 \/ Kind(lines[s - 1]) # "table"
    /\ e = Len(lines) \/ Kind(lines[e + 1]) # "table"

\* C4: a run of R table rows with C cells each, none of them an alignment
\* row, gives exactly one table, of R rows of C cells, holding the cells of
\* the rows in source order.
C4_TableRoundTrip ==
    pc = "done" =>
        \A s \in 1..Len(lines) : \A e \in 1..Len(lines) :
            ( /\ IsTableRun(s, e)
              /\ \A i \in s..e : Len(CellsOfLine(i)) = Len(CellsOfLine(s))
              /\ \A i \in s..e : ~IsAlignmentRow(CellsOfLine(i)) )
            => \E k \in BlocksOf("table") :
                   /\ doc[k].rows = [r \in 1..(e - s + 1) |-> CellsOfLine(s + r - 1)]
                   /\ \A k2 \in BlocksOf("table") :
                          k2 # k => Range(doc[k2].src) \cap (s..e) = {}

\* C5: every emitted table is rectangular: it has one row per kept input
\* row, as many columns as the longest of them has cells, and each row holds
\* the cells of its input row in place, then empty cells.
C5_TablesRectangular ==
    \A k \in BlocksOf("table") :
        /\ Len(doc[k].rows) = Len(doc[k].src)
        /\ \A r \in 1..Len(doc[k].rows) :
               LET row   == doc[k].rows[r]
                   cells == CellsOfLine(doc[k].src[r])
               IN  /\ \A r2 \in 1..Len(doc[k].src) :
                          Len(CellsOfLine(doc[k].src[r2])) <= Len(row)
                   /\ \E r2 \in 1..Len(doc[k].src) :
                          Len(CellsOfLine(doc[k].src[r2])) = Len(row)
                   /\ \A j \in 1..Len(row) :
                          row[j] = IF j <= Len(cells) THEN cells[j] ELSE << >>

\* C5's case: a table was emitted in which a short row was padded.
C5_Witness ==
    /\ pc = "done"
    /\ \E k \in BlocksOf("table") : \E r \in 1..Len(doc[k].rows) :
           /\ Len(CellsOfLine(doc[k].src[r])) < Len(doc[k].rows[r])
           /\ doc[k].rows[r][Len(doc[k].rows[r])] = << >>

\* The text the specification expects of a paragraph of lines 1..n.
JoinedLines == JoinSpace([k \in 1..Len(lines) |-> Strip(lines[k])])

\* Every line of the input is a plain-text line, and there is one at least.
OnlyPlainText ==
    /\ Len(lines) >= 1
    /\ \A i \in 1..Len(lines) : Kind(lines[i]) = "text"

\* C6 as stated: an input of plain-text lines only gives exactly one
\* paragraph, whose text is the stripped lines joined by single spaces.
C6_PlainTextOneParagraph ==
    (pc = "done" /\ OnlyPlainText) =>
        /\ Len(doc) = 1
        /\ doc[1].kind = "para"
        /\ doc[1].text = JoinedLines

\* C6 amended: the same, for inputs whose joined text holds no inline image
\* reference.
C6_PlainTextNoInlineImage ==
    (pc = "done" /\ OnlyPlainText /\ IMG_INLINE_RE_search(JoinedLines, 1) = 0) =>
        /\ Len(doc) = 1
        /\ doc[1].kind = "para"
        /\ doc[1].text = JoinedLines
        /\ doc[1].src = [k \in 1..Len(lines) |-> k]

\* C6's case: several plain-text lines became one paragraph.
C6_Witness ==
    /\ pc = "done"
    /\ OnlyPlainText
    /\ Len(lines) >= 2
    /\ IMG_INLINE_RE_search(JoinedLines, 1) = 0
    /\ \E i \in 1..Len(lines) : lines[i] # Strip(lines[i])
    /\ Len(doc) = 1

\* Some block holds text of input line i.
Covered(i) == \E k \in 1..Len(doc) : i \in Range(doc[k].src)

\* Lines s..e are a maximal run of consecutive plain-text lines: the lines
\* of one paragraph.
IsTextRun(s, e) ==
    /\ s <= e
    /\ \A i \in s..e : Kind(lines[i]) = "text"
    /\ s = 1 \/ Kind(lines[s - 1]) # "text"
    /\ e = Len(lines) \/ Kind(lines[e + 1]) # "text"

\* The text of the paragraph of lines s..e.
RunText(s, e) == Strip(JoinSpace([k \in 1..(e - s + 1) |-> Strip(lines[s + k - 1])]))

\* The text holds something besides inline image references.
HasTextPart(text) ==
    \E k \in 1..Len(InlineParts(text, 1)) : InlineParts(text, 1)[k].kind = "text"

\* The filename a block-image line names.
NamedBy(line) == Strip(IMG_LINE_RE(line).g2)

\* C7: an image reference whose filename is no key of the images dict never
\* aborts the conversion and produces no image block, and every other line
\* still produces its block.  Under Spec "q" is never a key and every
\* supplied picture is readable, so no conversion may abort at all.
C7_MissingImageHarmless ==
    /\ pc # "raised"
    /\ \A k \in BlocksOf("image") : \E f \in DOMAIN images : doc[k].blob = images[f]
    /\ \A i \in Handled :
           (Kind(lines[i]) = "img" /\ NamedBy(lines[i]) \notin DOMAIN images)
               => ~Covered(i)
    /\ pc = "done" =>
           /\ \A i \in 1..Len(lines) :
                  Kind(lines[i]) \in {"heading", "ul", "ol"} => Covered(i)
           /\ \A i \in 1..Len(lines) :
                  (Kind(lines[i]) = "table" /\ ~is_align_row(lines[i])) => Covered(i)
           /\ \A s \in 1..Len(lines) : \A e \in 1..Len(lines) :
                  (IsTextRun(s, e) /\ HasTextPart(RunText(s, e)))
                      => \A i \in s..e : Covered(i)

\* C7's case: a conversion ended whose input named the missing "q" both in a
\* block image and inline, and another line produced its block.
C7_Witness ==
    /\ pc = "done"
    /\ \E i \in 1..Len(lines) : lines[i] = LImgQ
    /\ \E i \in 1..Len(lines) : lines[i] = LInlineQ
    /\ \E i \in 1..Len(lines) : Kind(lines[i]) = "heading" /\ Covered(i)
    /\ BlocksOf("image") = {}

\* C8 as stated: when PIL cannot decode the bytes of a resolved image, no
\* exception leaves markdown_to_doc, and the picture is placed at exactly
\* the usable width.
C8_UndecodableFallsBack ==
    \A f \in DOMAIN images :
        (~images[f].empty /\ ~images[f].pil_ok) =>
            /\ pc # "raised"
            /\ \A k \in BlocksOf("image") :
                   doc[k].width.n * usable.d = usable.n * doc[k].width.d
            /\ \A i \in Handled :
                   (Kind(lines[i]) = "img" /\ NamedBy(lines[i]) = f)
                       => \E k \in BlocksOf("image") : doc[k].src = << i >>

\* The dpi the specification gives: 96 when absent or zero.
SpecDpi(blob) == IF ~blob.has_dpi \/ blob.dpi = 0 THEN 96 ELSE blob.dpi

\* C9: a decodable picture is placed at min(width_px / dpi, usable width):
\* never wider than the usable width, at its own width when that is not
\* wider; 2000 px at 200 dpi on 6.5 inches is placed at 6.5 inches.
C9_PlacementWidth ==
    \A k \in BlocksOf("image") :
        LET b == doc[k].blob
            w == doc[k].width
        IN  b.pil_ok =>
              /\ w.d > 0
              /\ w.n * usable.d <= usable.n * w.d
              /\ IF b.width_px * usable.d > usable.n * SpecDpi(b)
                 THEN w.n * usable.d = usable.n * w.d
                 ELSE w.n * SpecDpi(b) = b.width_px * w.d
              /\ (b.width_px = 2000 /\ b.has_dpi /\ b.dpi = 200 /\ usable = Frac(13, 2))
                     => w.n * 2 = 13 * w.d

\* C9's case: the conversion placed the 2000 px, 200 dpi picture on the 6.5
\* inch page, and a picture narrower than the page.
C9_Witness ==
    /\ pc = "done"
    /\ usable = Frac(13, 2)
    /\ \E k \in BlocksOf("image") :
           doc[k].blob.width_px = 2000 /\ doc[k].blob.has_dpi /\ doc[k].blob.dpi = 200

\* C9's other case: a picture narrower than the page was placed at its own
\* width, with the default dpi.
C9_WitnessNarrow ==
    /\ pc = "done"
    /\ \E k \in BlocksOf("image") :
           /\ doc[k].blob.pil_ok /\ ~doc[k].blob.has_dpi
           /\ doc[k].width.n * usable.d < usable.n * doc[k].width.d

\* The number of '#' characters line starts with.
HashCount(line) == LeadCount(line, {"#"})

\* A well-formed heading line: 1 to 6 '#' characters, then whitespace, then
\* text.
IsHeadingLine(line) ==
    /\ HashCount(line) \in 1..6
    /\ HashCount(line) < Len(line)
    /\ IsSpace(line[HashCount(line) + 1])
    /\ Strip(Drop(line, HashCount(line))) # << >>

\* C10: every handled heading line with k '#' characters, 1 <= k <= 6, has
\* produced a heading block of level exactly k holding the stripped text of
\* the line, and the level of every heading block is the '#' count of its
\* line.
C10_HeadingLevel ==
    /\ \A i \in Handled :
           IsHeadingLine(lines[i]) =>
               \E b \in BlocksOf("heading") :
                   /\ doc[b].src = << i >>
                   /\ doc[b].level = HashCount(lines[i])
                   /\ doc[b].text = Strip(Drop(lines[i], HashCount(lines[i])))
    /\ \A b \in BlocksOf("heading") :
           /\ Len(doc[b].src) = 1
           /\ doc[b].level = HashCount(lines[doc[b].src[1]])

\* C10's case: headings of levels 1 and 6 were emitted, and one whose text
\* had to be stripped.
C10_Witness ==
    /\ pc = "done"
    /\ \E b \in BlocksOf("heading") : doc[b].level = 6
    /\ \E b \in BlocksOf("heading") : doc[b].level = 1
    /\ \E b \in BlocksOf("heading") : lines[doc[b].src[1]] = HPadded /\ doc[b].text = << "b" >>

\* The children of the merged body that are not section properties.
MergedContent == SelectSeq(merged.body, LAMBDA e : e.kind # "sectPr")

\* Every document of the request decodes, and there is one at least.
AllDecodable ==
    /\ DOMAIN docs_dict # {}
    /\ \A k \in DOMAIN docs_dict : docs_dict[k].decodable

\* The blocks of the merged documents stand in ascending numeric key order,
\* each document's blocks once and in their own order.
MergedInKeyOrder ==
    LET blocks == SelectSeq(merged.body, LAMBDA e : e.kind = "block")
    IN  /\ \A k \in DOMAIN docs_dict : \A i \in 1..docs_dict[k].n :
               \E p \in 1..Len(blocks) :
                   /\ blocks[p].key = k /\ blocks[p].n = i
                   /\ \A q \in 1..Len(blocks) :
                          (blocks[q].key = k /\ blocks[q].n = i) => q = p
        /\ \A p \in 1..Len(blocks) : \A q \in 1..Len(blocks) :
               p < q => \/ int(blocks[p].key) < int(blocks[q].key)
                        \/ blocks[p].key = blocks[q].key /\ blocks[p].n < blocks[q].n

\* There are N-1 page breaks, each between the last block of one document
\* and the first block of the next.
BreaksBetweenDocuments ==
    LET c == MergedContent
    IN  /\ Cardinality({ p \in 1..Len(c) : c[p].kind = "break" })
               = Cardinality(DOMAIN docs_dict) - 1
        /\ \A p \in 1..Len(c) :
               c[p].kind = "break" =>
                   /\ 1 < p /\ p < Len(c)
                   /\ c[p - 1].kind = "block" /\ c[p + 1].kind = "block"
                   /\ c[p - 1].key # c[p + 1].key

\* C11: merging N >= 1 decodable documents gives their body content in
\* ascending numeric key order, with exactly one page break between each
\* consecutive pair of documents and none before the first or after the last.
C11_MergeOrderAndBreaks ==
    (mpc = "done" /\ AllDecodable) => (MergedInKeyOrder /\ BreaksBetweenDocuments)

\* The half of C11 about the order of the documents alone.
C11_OrderOnly ==
    (mpc = "done" /\ AllDecodable) => MergedInKeyOrder

\* The input lines whose text waits in the paragraph buffer or a list buffer.
PendingLines ==
    Range(Lns(para_buf)) \cup Range(Lns(ul_buf)) \cup Range(Lns(ol_buf))

\* C12 as stated: the step that handles a table-row line while no table is
\* open flushes the open paragraph and lists: right after it in_table is
\* true and the paragraph buffer and both list buffers are empty.
C12_TableEntryFlushes ==
    [][ (AtLine("table") /\ ~in_table) =>
            /\ in_table'
            /\ para_buf' = << >>
            /\ ul_buf' = << >>
            /\ ol_buf' = << >> ]_vars

\* C12 amended: the step that handles a table-row line flushes nothing: it
\* sets in_table and buffers the row, and leaves the document, the paragraph
\* buffer and the list buffers as they were.  The open paragraph and lists
\* are flushed by the step that ends the table (the next line that is no
\* table row, or the end of input): after it none of their lines is still
\* buffered, and every block holding one of them stands before the table
\* of the buffered rows.
C12_TableEntryBuffers ==
    [][ /\ AtLine("table") =>
               /\ in_table'
               /\ tbl_buf' = Append(tbl_buf, [text |-> lines[idx], ln |-> idx])
               /\ UNCHANGED << doc, para_buf, ul_buf, ol_buf >>
        /\ (pc = "loop" /\ in_table /\ ~AtLine("table")) =>
               \A i \in PendingLines :
                   /\ i \notin PendingLines'
                   /\ \A k \in 1..Len(doc') : \A t \in 1..Len(doc') :
                          ( /\ i \in Range(doc'[k].src)
                            /\ doc'[t].kind = "table"
                            /\ Range(doc'[t].src) \cap Range(Lns(tbl_buf)) # {} )
                          => k < t ]_vars

\* C12's case: a table row was handled while a paragraph and a list were
\* open, and both are still buffered.
C12_Witness ==
    /\ in_table
    /\ tbl_buf # << >>
    /\ para_buf # << >>
    /\ ul_buf # << >>

\* C12's other case: the table was ended and stands after the paragraph
\* that was open when its first row came.
C12_WitnessClosed ==
    /\ ~in_table
    /\ \E k \in BlocksOf("para") : \E t \in BlocksOf("table") :
           /\ k < t
           /\ \A i \in Range(doc[k].src) : \A j \in Range(doc[t].src) : i < j

\* The input lines whose rows wait in the table buffer.
PendingRows == Range(Lns(tbl_buf))

\* C13: the step that handles a heading line flushes the open paragraph,
\* the open list and the open table and then emits the heading: the blocks
\* emitted before stay, the blocks the step adds hold buffered lines only
\* (every buffered list item, every row flush_table keeps, the paragraph),
\* the heading of the line is the last block, and right after the step
\* every buffer is empty and in_table is false.
C13_HeadingFlushesAll ==
    [][ AtLine("heading") =>
            /\ pc' = "loop"
            /\ para_buf' = << >> /\ ul_buf' = << >> /\ ol_buf' = << >>
            /\ tbl_buf' = << >> /\ ~in_table'
            /\ Len(doc') > Len(doc)
            /\ SubSeq(doc', 1, Len(doc)) = doc
            /\ doc'[Len(doc')].kind = "heading"
            /\ doc'[Len(doc')].src = << idx >>
            /\ \A k \in (Len(doc) + 1)..(Len(doc') - 1) :
                   /\ doc'[k].kind # "heading"
                   /\ Range(doc'[k].src) \subseteq (PendingLines \cup PendingRows)
            /\ \A i \in Range(Lns(ul_buf)) \cup Range(Lns(ol_buf)) :
                   \E k \in (Len(doc) + 1)..(Len(doc') - 1) :
                       doc'[k].kind = "list" /\ i \in Range(doc'[k].src)
            /\ \A i \in PendingRows :
                   ~is_align_row(lines[i]) =>
                       \E k \in (Len(doc) + 1)..(Len(doc') - 1) :
                           doc'[k].kind = "table" /\ i \in Range(doc'[k].src)
            /\ (para_buf # << >> /\ IMG_INLINE_RE_search(JoinSpace(Texts(para_buf)), 1) = 0) =>
                   \E k \in (Len(doc) + 1)..(Len(doc') - 1) :
                       doc'[k].kind = "para" /\ doc'[k].src = Lns(para_buf) ]_vars

\* C13's case: a heading line was handled while a table and a paragraph or
\* a list were open: their blocks stand before the heading, which is the
\* last block, and nothing is buffered.
C13_Witness ==
    /\ pc = "loop"
    /\ idx = 4
    /\ Len(doc) = 3
    /\ doc[1].kind \in { "para", "list" }
    /\ doc[2].kind = "table"
    /\ doc[3].kind = "heading" /\ doc[3].src = << 3 >>
    /\ para_buf = << >> /\ ul_buf = << >> /\ ol_buf = << >> /\ tbl_buf = << >>
    /\ ~in_table

\* The rows of the table buffer that flush_table keeps.
KeptRows == { i \in PendingRows : ~is_align_row(lines[i]) }

\* The maximal run of consecutive table-row lines that line i belongs to.
RunOf(i) ==
    { j \in 1..Len(lines) :
        \A m \in (IF i < j THEN i ELSE j)..(IF i < j THEN j ELSE i) :
            Kind(lines[m]) = "table" }

\* C14: the step that handles a line that is no table row while a table is
\* open flushes the buffered table and clears in_table: the rows flush_table
\* keeps become one new table block (none when it keeps none) and the row
\* buffer is empty afterwards.  Hence every table block holds rows of one
\* maximal run of consecutive table-row lines, in line order, and no two
\* table blocks share a run: runs separated by a line that is no table row
\* give separate blocks.
C14_NonTableLineClosesTable ==
    /\ [][ (pc = "loop" /\ idx <= Len(lines) /\ in_table /\ ~AtLine("table")) =>
               /\ ~in_table'
               /\ tbl_buf' = << >>
               /\ SubSeq(doc', 1, Len(doc)) = doc
               /\ KeptRows # {} =>
                      \E t \in (Len(doc) + 1)..Len(doc') :
                          /\ doc'[t].kind = "table"
                          /\ Range(doc'[t].src) = KeptRows
               /\ \A t \in (Len(doc) + 1)..Len(doc') : \A u \in (Len(doc) + 1)..Len(doc') :
                      (doc'[t].kind = "table" /\ doc'[u].kind = "table") =>
                          (t = u /\ KeptRows # {}) ]_vars
    /\ [](\A t \in BlocksOf("table") :
              /\ doc[t].src # << >>
              /\ Range(doc[t].src) \subseteq RunOf(doc[t].src[1])
              /\ \A a \in 1..Len(doc[t].src) : \A b \in 1..Len(doc[t].src) :
                     a < b => doc[t].src[a] < doc[t].src[b]
              /\ \A u \in BlocksOf("table") :
                     u # t => RunOf(doc[u].src[1]) \cap RunOf(doc[t].src[1]) = {})

\* C14's case: two runs of table rows separated by a blank line have given
\* two table blocks.
C14_Witness ==
    /\ pc = "done"
    /\ Len(lines) = 3
    /\ Kind(lines[1]) = "table" /\ Kind(lines[2]) = "blank" /\ Kind(lines[3]) = "table"
    /\ Len(doc) = 2
    /\ doc[1].kind = "table" /\ doc[1].src = << 1 >>
    /\ doc[2].kind = "table" /\ doc[2].src = << 3 >>

\* C15: when the text of a paragraph with inline image references is split,
\* a span of text that is empty after trimming produces no block: every
\* paragraph block holds text.  (Under SpecInline every supplied picture is
\* readable, so a paragraph block comes from a text span only.)
C15_NoBlockForBlankSpan ==
    \A k \in BlocksOf("para") : doc[k].text # << >>

\* What is expected of the text from position `from` on, reading left to
\* right: a paragraph for each span of text that holds more than whitespace,
\* a picture for each image reference whose filename is a key of images.
RECURSIVE Fragments(_, _)
Fragments(text, from) ==
    LET s    == IMG_INLINE_RE_search(text, from)
        stop == IF s = 0 THEN Len(text) ELSE s - 1
        span == Strip(SubSeq(text, from, stop))
        head == IF span = << >> THEN << >> ELSE << [kind |-> "para", text |-> span] >>
        name == Strip(ImgAt(text, s).g2)
    IN  IF s = 0 THEN head
        ELSE head
             \o (IF name \in DOMAIN images /\ ~images[name].empty
                 THEN << [kind |-> "image", blob |-> images[name]] >>
                 ELSE << >>)
             \o Fragments(text, ImgAt(text, s).end + 1)

\* The blocks emitted for the paragraph of lines s..e, in document order,
\* without the empty paragraphs: what each shows.
RECURSIVE Shown(_, _)
Shown(blocks, src) ==
    IF blocks = << >> THEN << >>
    ELSE (IF Head(blocks).src # src THEN << >>
          ELSE IF Head(blocks).kind = "image"
               THEN << [kind |-> "image", blob |-> Head(blocks).blob] >>
          ELSE IF Head(blocks).text = << >> THEN << >>
          ELSE << [kind |-> "para", text |-> Head(blocks).text] >>)
         \o Shown(Tail(blocks), src)

\* C16: the blocks emitted for a paragraph with inline image references
\* show its text spans and its resolved image references in their
\* left-to-right order in the joined text, one picture per resolved
\* reference; "![alt](pic.png) trailing text" with pic.png supplied gives
\* the picture followed by the paragraph "trailing text".
C16_FragmentsLeftToRight ==
    /\ \A s \in 1..Len(lines) : \A e \in Handled :
           (IsTextRun(s, e) /\ e \notin PendingLines) =>
               Shown(doc, [k \in 1..(e - s + 1) |-> s + k - 1]) = Fragments(RunText(s, e), 1)
    /\ (pc = "done" /\ lines = << LScenarioC >> /\ PicPng \in DOMAIN images) =>
           /\ Len(doc) = 2
           /\ doc[1].kind = "image" /\ doc[1].blob = PicBlob
           /\ doc[2].kind = "para"
           /\ doc[2].text = << "t", "r", "a", "i", "l", "i", "n", "g", " ", "t", "e", "x", "t" >>

\* C16's case: the scenario has run with pic.png supplied, and a paragraph
\* of two lines has given text, picture, text in that order.
C16_Witness ==
    /\ pc = "done"
    /\ PicPng \in DOMAIN images
    /\ \E i \in 1..Len(lines) : lines[i] = LScenarioC
    /\ \E a \in 1..Len(doc) :
           /\ a + 2 <= Len(doc)
           /\ doc[a].kind = "para" /\ doc[a].text # << >>
           /\ doc[a + 1].kind = "image" /\ doc[a + 1].src = doc[a].src
           /\ doc[a + 2].kind = "para" /\ doc[a + 2].src = doc[a].src

\* A list marker with nothing after it: '-', '*', '+' or digits and a dot,
\* with or without whitespace around it.
IsBareMarker(line) ==
    LET t == Strip(line)
    IN  \/ t \in { << "-" >>, << "*" >>, << "+" >> }
        \/ /\ Len(t) >= 2
           /\ t[Len(t)] = "."
           /\ \A k \in 1..(Len(t) - 1) : IsDigit(t[k])

\* Line i has been taken as plain text and as no list item.
TakenAsText(i) ==
    /\ i \notin Range(Lns(ul_buf)) \cup Range(Lns(ol_buf))
    /\ \A k \in BlocksOf("list") : i \notin Range(doc[k].src)
    /\ \/ i \in Range(Lns(para_buf))
       \/ \E k \in BlocksOf("para") : i \in Range(doc[k].src)

\* C17: a line that is a list marker with no content after it, with or
\* without trailing whitespace, is taken as plain text: it goes to the
\* paragraph buffer and adds no item to any list, and no such line makes
\* the conversion fail.
C17_BareMarkerIsText ==
    /\ pc # "raised"
    /\ \A i \in Handled : IsBareMarker(lines[i]) => TakenAsText(i)

\* The part of C17 about markers that no whitespace follows.
C17_MarkerWithoutSpace ==
    /\ pc # "raised"
    /\ \A i \in Handled :
           (IsBareMarker(lines[i]) /\ ~IsSpace(lines[i][Len(lines[i])])) => TakenAsText(i)

\* The place of a block in the order paragraph, list, table of the final
\* flushes (a picture of a paragraph counts with its paragraph).
FlushRank(b) ==
    IF b.kind \in { "para", "image" } THEN 1
    ELSE IF b.kind = "list" THEN 2
    ELSE 3

\* C18: the step taken at end of input flushes the paragraph, then the
\* lists, then the table, each once: the blocks emitted before stay as they
\* are, the blocks the step adds hold the lines still buffered and no line
\* of an earlier block, they stand in the order paragraph, list, table with
\* one block per list buffer and one table at most, and the paragraph and
\* list buffers are empty when the function returns.
C18_FinalFlushOnce ==
    [][ (pc = "loop" /\ idx > Len(lines)) =>
            /\ pc' = "done"
            /\ para_buf' = << >> /\ ul_buf' = << >> /\ ol_buf' = << >>
            /\ Len(doc') >= Len(doc)
            /\ SubSeq(doc', 1, Len(doc)) = doc
            /\ \A a \in (Len(doc) + 1)..Len(doc') :
                   /\ doc'[a].kind # "heading"
                   /\ FlushRank(doc'[a]) = 1 => doc'[a].src = Lns(para_buf)
                   /\ FlushRank(doc'[a]) = 2 =>
                          doc'[a].src = Lns(IF doc'[a].ordered THEN ol_buf ELSE ul_buf)
                   /\ FlushRank(doc'[a]) = 3 => Range(doc'[a].src) = KeptRows
                   /\ doc'[a].src # << >>
                   /\ \A j \in 1..Len(doc) :
                          Range(doc[j].src) \cap Range(doc'[a].src) = {}
                   /\ \A b \in (a + 1)..Len(doc') :
                          /\ FlushRank(doc'[a]) <= FlushRank(doc'[b])
                          /\ FlushRank(doc'[a]) >= 2 => doc'[a].src # doc'[b].src
            /\ ul_buf # << >> =>
                   \E a \in (Len(doc) + 1)..Len(doc') :
                       doc'[a].kind = "list" /\ ~doc'[a].ordered
            /\ ol_buf # << >> =>
                   \E a \in (Len(doc) + 1)..Len(doc') :
                       doc'[a].kind = "list" /\ doc'[a].ordered
            /\ KeptRows # {} =>
                   \E a \in (Len(doc) + 1)..Len(doc') : doc'[a].kind = "table"
            /\ (para_buf # << >> /\ IMG_INLINE_RE_search(JoinSpace(Texts(para_buf)), 1) = 0) =>
                   \E a \in (Len(doc) + 1)..Len(doc') :
                       /\ doc'[a].kind = "para"
                       /\ \A b \in (Len(doc) + 1)..Len(doc') :
                              doc'[b].kind = "para" => b = a ]_vars

\* C18's case: the input ended with a list, a paragraph and a table still
\* buffered, and the final flushes emitted them as paragraph, list, table.
C18_Witness ==
    /\ pc = "done"
    /\ lines = << LUlA, LText, LRow >>
    /\ Len(doc) = 3
    /\ doc[1].kind = "para" /\ doc[2].kind = "list" /\ doc[3].kind = "table"
    /\ para_buf = << >> /\ ul_buf = << >> /\ ol_buf = << >>

\* The places where line i stands as a list item: in a list block of the
\* document (block k, position n) or in a list buffer (block 0).
ItemPlaces(i) ==
    { << k, n >> \in (1..Len(doc)) \X (1..MaxLines + 1) :
        doc[k].kind = "list" /\ n <= Len(doc[k].src) /\ doc[k].src[n] = i }
    \cup { << 0, n >> : n \in { m \in 1..Len(ul_buf) : ul_buf[m].ln = i } }
    \cup { << 0, n >> : n \in { m \in 1..Len(ol_buf) : ol_buf[m].ln = i } }

\* The text of the item of a list-item line: what follows the marker and
\* its whitespace, stripped.
ItemText(line) ==
    LET t    == Strip(line)
        mark == IF t[1] \in { "-", "*", "+" } THEN 1 ELSE LeadCount(t, { "0", "1", "2", "3", "4", "5", "6", "7", "8", "9" }) + 1
    IN  Strip(Drop(t, mark))

\* C19: no list item is lost or duplicated.  Every handled list-item line
\* stands exactly once in a list buffer or a list block, and after the end
\* of input in a list block; the block is of the line's kind and shows the
\* line's item text; list blocks hold list-item lines only; within a block
\* and from one list block to the next the items follow the order of their
\* lines.
C19_ListItemsKept ==
    /\ \A i \in Handled :
           Kind(lines[i]) \in { "ul", "ol" } =>
               /\ Cardinality(ItemPlaces(i)) = 1
               /\ pc = "done" => \A pl \in ItemPlaces(i) : pl[1] # 0
               /\ \A pl \in ItemPlaces(i) :
                      pl[1] # 0 =>
                          /\ doc[pl[1]].ordered = (Kind(lines[i]) = "ol")
                          /\ doc[pl[1]].items[pl[2]] = ItemText(lines[i])
    /\ \A k \in BlocksOf("list") :
           /\ Len(doc[k].items) = Len(doc[k].src)
           /\ \A n \in 1..Len(doc[k].src) :
                  Kind(lines[doc[k].src[n]]) \in { "ul", "ol" }
           /\ \A a \in 1..Len(doc[k].src) : \A b \in 1..Len(doc[k].src) :
                  a < b => doc[k].src[a] < doc[k].src[b]
           /\ \A k2 \in BlocksOf("list") :
                  k < k2 => \A i \in Range(doc[k].src) : \A j \in Range(doc[k2].src) : i < j

\* C19's case: list items of both kinds were emitted, two of them in one
\* block, and an item that stood before a plain-text line.
C19_Witness ==
    /\ pc = "done"
    /\ \E k \in BlocksOf("list") : Len(doc[k].items) = 2
    /\ \E k \in BlocksOf("list") : \E k2 \in BlocksOf("list") :
           doc[k].ordered /\ ~doc[k2].ordered

\* The joined text of the lines a block was made from.
SourceText(b) == JoinSpace([k \in 1..Len(b.src) |-> Strip(lines[b.src[k]])])

\* C20: every entry of the paragraph buffer is a non-empty stripped line
\* (the stripped text of its input line, which is a plain-text line); a
\* paragraph block without text comes only from text with an inline image
\* reference, so without one every paragraph holds text; and a blank line
\* is never buffered and never produces a block.
C20_ParagraphsHoldText ==
    /\ \A n \in 1..Len(para_buf) :
           /\ para_buf[n].text # << >>
           /\ para_buf[n].text = Strip(para_buf[n].text)
           /\ para_buf[n].text = Strip(lines[para_buf[n].ln])
           /\ Kind(lines[para_buf[n].ln]) = "text"
    /\ \A k \in BlocksOf("para") :
           /\ doc[k].text = << >> => IMG_INLINE_RE_search(SourceText(doc[k]), 1) # 0
           /\ IMG_INLINE_RE_search(SourceText(doc[k]), 1) = 0 =>
                  doc[k].text = SourceText(doc[k])
    /\ \A i \in Handled :
           Strip(lines[i]) = << >> =>
               /\ ~Covered(i)
               /\ i \notin PendingLines \cup PendingRows

\* C20's case: a blank line has ended one paragraph, which was emitted with
\* its text, and the next plain-text line, stripped, waits in the buffer.
C20_Witness ==
    /\ pc = "loop"
    /\ para_buf # << >>
    /\ lines[para_buf[1].ln] # para_buf[1].text
    /\ \E i \in Handled : Kind(lines[i]) = "blank"
    /\ \E k \in BlocksOf("para") : doc[k].text # << >>

====
